---- MODULE Spec2Model ----
(***************************************************************************)
(* A model of despasito's TLVE experimental-data class                     *)
(* (fit_parameters/data_classes/TLVE.py) and of the first-order            *)
(* perturbation kernels calc_a1s_2d / calc_a1s_1d                          *)
(* (equations_of_state/saft/gamma_mie_funcs_opt.py).                       *)
(*                                                                         *)
(* Floating-point numbers are modelled as IEEE-754 binary numbers with a   *)
(* Prec-bit significand, round-to-nearest-even after every operation, an   *)
(* unbounded exponent, and the special values +inf, -inf and NaN.          *)
(***************************************************************************)
EXTENDS Integers, Sequences, FiniteSets, TLC

\* Width of the significand of the modelled floating-point format.
Prec == 8

(***************************************************************************)
(* Floating-point arithmetic                                               *)
(***************************************************************************)
RECURSIVE Pow2(_)
Pow2(n) == IF n <= 0 THEN 1 ELSE 2 * Pow2(n - 1)

RECURSIVE BitLen(_)
BitLen(n) == IF n <= 0 THEN 0 ELSE 1 + BitLen(n \div 2)

Abs(n) == IF n < 0 THEN -n ELSE n

Sgn(n) == IF n < 0 THEN -1 ELSE IF n > 0 THEN 1 ELSE 0

NaN == [k |-> "nan", m |-> 0, e |-> 0]

Inf(s) == [k |-> "inf", m |-> s, e |-> 0]

Zero == [k |-> "fin", m |-> 0, e |-> 0]

\* The float nearest to n * 2^e (ties to even), normalised so that
\* 2^(Prec-1) <= |m| < 2^Prec.
Round(n, e) ==
    IF n = 0 THEN Zero
    ELSE LET a == Abs(n)
             k == BitLen(a) - Prec
         IN IF k <= 0
            THEN [k |-> "fin", m |-> Sgn(n) * a * Pow2(-k), e |-> e + k]
            ELSE LET q    == a \div Pow2(k)
                     r    == a % Pow2(k)
                     half == Pow2(k - 1)
                     up   == r > half \/ (r = half /\ q % 2 = 1)
                     q2   == IF up THEN q + 1 ELSE q
                 IN IF q2 = Pow2(Prec)
                    THEN [k |-> "fin", m |-> Sgn(n) * Pow2(Prec - 1), e |-> e + k + 1]
                    ELSE [k |-> "fin", m |-> Sgn(n) * q2, e |-> e + k]

FromInt(n) == Round(n, 0)

IsNaN(x) == x.k = "nan"

IsInf(x) == x.k = "inf"

IsFinite(x) == x.k = "fin"

IsZero(x) == x.k = "fin" /\ x.m = 0

FNeg(x) == [x EXCEPT !.m = -x.m]

MulV(x, y) ==
    IF IsNaN(x) \/ IsNaN(y) THEN NaN
    ELSE IF IsInf(x) \/ IsInf(y)
         THEN IF IsZero(x) \/ IsZero(y) THEN NaN ELSE Inf(Sgn(x.m) * Sgn(y.m))
         ELSE Round(x.m * y.m, x.e + y.e)

\* x * y. (The set constructor makes each argument be evaluated once.)
FMul(x, y) == CHOOSE r \in { MulV(a, b) : a \in {x}, b \in {y} } : TRUE

\* x / y; a finite non-zero number divided by zero is an infinity and 0/0
\* is NaN: array division raises no error.
DivV(x, y) ==
    IF IsNaN(x) \/ IsNaN(y) THEN NaN
    ELSE IF IsInf(x) THEN (IF IsInf(y) THEN NaN
                           ELSE Inf(x.m * (IF y.m < 0 THEN -1 ELSE 1)))
    ELSE IF IsInf(y) THEN Zero
    ELSE IF IsZero(y) THEN (IF IsZero(x) THEN NaN ELSE Inf(Sgn(x.m)))
    ELSE IF IsZero(x) THEN Zero
    ELSE LET num == Abs(x.m) * Pow2(Prec + 2)
             q   == num \div Abs(y.m)
             st  == IF num % Abs(y.m) = 0 THEN 0 ELSE 1
         IN Round(Sgn(x.m) * Sgn(y.m) * (2 * q + st), x.e - y.e - Prec - 3)

FDiv(x, y) == CHOOSE r \in { DivV(a, b) : a \in {x}, b \in {y} } : TRUE

AddV(x, y) ==
    IF IsNaN(x) \/ IsNaN(y) THEN NaN
    ELSE IF IsInf(x) THEN (IF IsInf(y) /\ y.m # x.m THEN NaN ELSE x)
    ELSE IF IsInf(y) THEN y
    ELSE IF IsZero(x) THEN y
    ELSE IF IsZero(y) THEN x
    ELSE IF x.e - y.e >= Prec + 2 THEN x
    ELSE IF y.e - x.e >= Prec + 2 THEN y
    ELSE IF x.e >= y.e THEN Round(x.m * Pow2(x.e - y.e) + y.m, y.e)
    ELSE Round(x.m + y.m * Pow2(y.e - x.e), x.e)

FAdd(x, y) == CHOOSE r \in { AddV(a, b) : a \in {x}, b \in {y} } : TRUE

FSub(x, y) == CHOOSE r \in { AddV(a, FNeg(b)) : a \in {x}, b \in {y} } : TRUE

\* x == y of IEEE arithmetic: NaN equals nothing, itself included.
FEq(x, y) == ~IsNaN(x) /\ ~IsNaN(y) /\ x = y

\* x**2 and x**3 by repeated multiplication.
FSq(x) == FMul(x, x)

FCube(x) == FMul(FMul(x, x), x)

\* The decimal literal n/d.
Dec(n, d) == FDiv(FromInt(n), FromInt(d))

One == FromInt(1)

Two == FromInt(2)

(***************************************************************************)
(* Python values                                                           *)
(***************************************************************************)
\* Python's None.
None == "None"

\* A dict is a function from its keys.
EmptyDict == [x \in {} |-> 0]

Has(d, key) == key \in DOMAIN d

Put(d, key, v) == [x \in DOMAIN d \cup {key} |-> IF x = key THEN v ELSE d[x]]

Del(d, key) == [x \in DOMAIN d \ {key} |-> d[x]]

\* dict.update
Update(d, other) ==
    [x \in DOMAIN d \cup DOMAIN other |-> IF x \in DOMAIN other THEN other[x] ELSE d[x]]

\* A weight is a float (v holds it alone), or a list with one float per data
\* point.
FloatWeight(x) == [type |-> "float", v |-> << x >>]

ListWeight(seq) == [type |-> "list", v |-> seq]

(***************************************************************************)
(* TLVE.py: class Data                                                     *)
(***************************************************************************)
VARIABLES
    data_dict,     \* the dictionary the constructor is given
    pc,            \* "new", "constructed", "init_failed", "scored", "objective_failed"
    thermodict,    \* self.thermodict
    weights,       \* self.weights
    npoints,       \* self.npoints
    exc,           \* the exception the last call raised, or None
    thermo_calls,  \* number of calls of thermo() so far
    thermo_raised, \* whether the last call of thermo() raised an exception
    phase_list,    \* the prediction objective() received from thermo()
    obj_value,     \* the two channel scores of objective()
    obj_total      \* the value objective() returned

data_vars ==
    << data_dict, pc, thermodict, weights, npoints, exc, thermo_calls, thermo_raised,
       phase_list, obj_value, obj_total >>

\* ExpDataTemplate.__init__: self.weights is the given weights, and
\* self.thermodict holds the given calculation_type (None when there is none)
\* and the given density_dict.
ExpDataTemplate_init(dd) ==
    [weights    |-> IF Has(dd, "weights") THEN dd["weights"] ELSE EmptyDict,
     thermodict |->
        LET td == Put(EmptyDict, "calculation_type",
                      IF Has(dd, "calculation_type") THEN dd["calculation_type"] ELSE None)
        IN IF Has(dd, "density_dict") THEN Put(td, "density_dict", dd["density_dict"])
           ELSE td]

\* Lines 56-58: thermodict["density_dict"] is set to {} and then updated
\* with itself.
density_dict_step(td) ==
    LET td1 == Put(td, "density_dict", EmptyDict)
    IN IF Has(td1, "density_dict")
       THEN Put(td1, "density_dict", Update(td1["density_dict"], td1["density_dict"]))
       ELSE td1

\* thermodict[list_key] = data_dict[key], when the key is given
\* (P is stored twice, as Plist and as Pguess).
store_array(td, dd, key, list_key) ==
    IF ~Has(dd, key) THEN td
    ELSE IF key = "P" THEN Put(Put(td, "Plist", dd["P"]), "Pguess", dd["P"])
    ELSE Put(td, list_key, dd[key])

\* self.weights[list_key] = self.weights.pop(key), when the key is given and
\* has a weight.
rename_weight(w, dd, key, list_key) ==
    IF Has(dd, key) /\ Has(w, key) THEN Put(Del(w, key), list_key, w[key]) ELSE w

\* The test of lines 66, 78 and 87: a weight that is no float and is not as
\* long as the data.
weight_mismatch(w, td, dd, key, list_key) ==
    /\ Has(dd, key) /\ Has(w, key)
    /\ w[key].type # "float"
    /\ Len(w[key].v) # Len(td[list_key])

\* Lines 60-88: thermodict after the arrays are stored.
thermodict_arrays(td, dd) ==
    store_array(store_array(store_array(store_array(td, dd, "xi", "xilist"),
        dd, "T", "Tlist"), dd, "yi", "yilist"), dd, "P", "Plist")

\* Lines 60-88: weights after the renaming.
weights_renamed(w, dd) ==
    rename_weight(rename_weight(rename_weight(rename_weight(w, dd, "xi", "xilist"),
        dd, "T", "Tlist"), dd, "yi", "yilist"), dd, "P", "Plist")

\* Lines 102-111: the calculation type after the default is chosen; a
\* non-empty list is true.
infer_calculation_type(td) ==
    IF td["calculation_type"] # None THEN td["calculation_type"]
    ELSE IF Len(td["xilist"]) > 0 THEN "phase_xiT"
    ELSE IF Len(td["yilist"]) > 0 THEN "phase_yiT"
    ELSE None

\* The weights as given, no default added.
default_weights_skipped(w, td) == w

\* Lines 113-116: a weight of 1.0 for every key of thermodict that has none.
default_weights(w, td) ==
    [key \in DOMAIN w \cup (DOMAIN td \ {"calculation_type", "density_dict", "mpObj"}) |->
        IF key \in DOMAIN w THEN w[key] ELSE FloatWeight(One)]

\* A comparison of xi alone with T.
lengths_differ_xi_only(td) ==
    Has(td, "xilist") /\ Len(td["xilist"]) # Len(td["Tlist"])

\* Lines 96-100: P, xi or yi, when stored, is not as long as T.
lengths_differ(td) ==
    \E key \in {"Plist", "xilist", "yilist"} :
        Has(td, key) /\ Len(td[key]) # Len(td["Tlist"])

\* Data.__init__: the exception it raises (None when it returns) and the
\* fields of the object it leaves.
Data_init_result(dd) ==
    LET base == ExpDataTemplate_init(dd)
        td   == thermodict_arrays(density_dict_step(base.thermodict), dd)
        w0   == base.weights
        w    == weights_renamed(w0, dd)
        fail(e) == [exc |-> e, thermodict |-> EmptyDict, weights |-> EmptyDict,
                    npoints |-> 0]
    IN IF \/ weight_mismatch(w0, td, dd, "xi", "xilist")
          \/ weight_mismatch(w0, td, dd, "yi", "yilist")
          \/ weight_mismatch(w0, td, dd, "P", "Plist")
       THEN fail("ValueError")
       ELSE IF ~Has(td, "Plist") /\ ~Has(td, "Tlist") THEN fail("ImportError")
       ELSE IF ~Has(td, "xilist") \/ ~Has(td, "yilist") THEN fail("ImportError")
       ELSE IF ~Has(td, "Tlist") THEN fail("KeyError")
       ELSE IF lengths_differ(td) THEN fail("ValueError")
       ELSE IF infer_calculation_type(td) = None THEN fail("ValueError")
       ELSE LET td2 == Put(td, "calculation_type", infer_calculation_type(td))
            IN [exc |-> None, thermodict |-> td2, weights |-> default_weights(w, td2),
                npoints |-> Len(td["Tlist"])]

\* fit_funcs.obj_function_form: the mean over the data points of the
\* weighted squared relative deviation; NaN for an empty array, and NaN as
\* soon as one prediction is NaN.
RECURSIVE weighted_sq_dev_sum(_, _, _, _)
weighted_sq_dev_sum(pred, meas, w, i) ==
    IF i = 0 THEN Zero
    ELSE FAdd(weighted_sq_dev_sum(pred, meas, w, i - 1),
              FMul(FSq(FDiv(FSub(pred[i], meas[i]), meas[i])),
                   IF w.type = "float" THEN w.v[1] ELSE w.v[i]))

obj_function_form(pred, meas, w) ==
    IF Len(meas) = 0 THEN NaN
    ELSE FDiv(weighted_sq_dev_sum(pred, meas, w, Len(meas)), FromInt(Len(meas)))

\* np.transpose of a list of rows: the list of columns (empty for no rows).
Transpose(rows) ==
    IF Len(rows) = 0 THEN << >>
    ELSE [c \in 1..Len(rows[1]) |-> [i \in 1..Len(rows) |-> rows[i][c]]]

\* Data._thermo_wrapper: out is what thermo() does when it is called. The
\* result is the exception raised (None when it returns) and the output.
thermo_wrapper(td, out) ==
    IF td["calculation_type"] \in {"phase_xiT", "phase_yiT"}
    THEN IF out.raised THEN [exc |-> "ValueError", output |-> << >>, called |-> 1]
         ELSE [exc |-> None, output |-> << out.P, out.zi >>, called |-> 1]
    ELSE [exc |-> "UnboundLocalError", output |-> << >>, called |-> 0]

\* fit_funcs.reformat_ouput followed by np.transpose: row 1 is the predicted
\* pressure of every point, row 1+c the predicted mole fraction of component c.
reformat_transposed(output) == << output[1] >> \o Transpose(output[2])

\* The loop of lines 172-173 and 178-179 over the components.
RECURSIVE composition_score(_, _, _, _)
composition_score(pl, cols, w, i) ==
    IF i = 0 THEN Zero
    ELSE FAdd(composition_score(pl, cols, w, i - 1),
              obj_function_form(pl[1 + i], cols[i], w))

\* Lines 163-179: the channel vector (pressure score, composition score).
channel_scores(td, w, pl) ==
    << IF Has(td, "Plist") THEN obj_function_form(pl[1], td["Plist"], w["Plist"])
       ELSE Zero,
       IF td["calculation_type"] = "phase_xiT" /\ Has(td, "yilist")
       THEN LET yi == Transpose(td["yilist"])
            IN composition_score(pl, yi, w["yilist"], Len(yi))
       ELSE IF td["calculation_type"] = "phase_yiT" /\ Has(td, "xilist")
       THEN LET xi == Transpose(td["xilist"])
            IN composition_score(pl, xi, w["xilist"], Len(xi))
       ELSE Zero >>

\* np.sum: the sum of all entries, NaN as soon as one entry is NaN.
RECURSIVE plain_sum(_, _)
plain_sum(v, i) ==
    IF i = 0 THEN Zero ELSE FAdd(plain_sum(v, i - 1), v[i])

\* np.nansum: the sum of the entries that are not NaN.
RECURSIVE nansum(_, _)
nansum(v, i) ==
    IF i = 0 THEN Zero
    ELSE IF IsNaN(v[i]) THEN nansum(v, i - 1)
    ELSE FAdd(nansum(v, i - 1), v[i])

\* Line 186 alone, without the test of line 183.
reduce_scores_unguarded(v) == nansum(v, Len(v))

\* Lines 183-186.
reduce_scores(v) ==
    IF \A i \in 1..Len(v) : IsNaN(v[i]) \/ FEq(v[i], Zero) THEN Inf(1)
    ELSE nansum(v, Len(v))

\* Lines 147-188: the exception of _thermo_wrapper is not caught.
objective_result_raising(td, w, out) ==
    LET tw == thermo_wrapper(td, out)
    IN IF tw.exc # None
       THEN [exc |-> tw.exc, called |-> tw.called, phase_list |-> << >>,
             obj_value |-> << >>, obj_total |-> None]
       ELSE LET pl == reformat_transposed(tw.output)
                ov == channel_scores(td, w, pl)
            IN [exc |-> None, called |-> tw.called, phase_list |-> pl,
                obj_value |-> ov, obj_total |-> reduce_scores(ov)]

\* An objective that would catch the ValueError and score +infinity.
objective_result_catching(td, w, out) ==
    LET r == objective_result_raising(td, w, out)
    IN IF r.exc = "ValueError"
       THEN [r EXCEPT !.exc = None, !.obj_value = << NaN, NaN >>,
                      !.obj_total = Inf(1)]
       ELSE r

\* Data.objective.
objective_result(td, w, out) == objective_result_raising(td, w, out)

\* Largest number of data points of a dataset.
MaxPts == 2

\* The measured values of one data point.
TVal == FromInt(300)

PVal == FromInt(5)

XiRow == << Dec(1, 4), Dec(3, 4) >>

YiRow == << Dec(1, 2), Dec(1, 2) >>

Repeat(v, n) == [i \in 1..n |-> v]

\* The arrays a dataset may give: each of T, P, xi, yi is absent or has
\* 0..MaxPts points.
ArrayChoices ==
    { [x \in keys |-> Repeat(CASE x = "T" -> TVal [] x = "P" -> PVal
                               [] x = "xi" -> XiRow [] OTHER -> YiRow, len[x])] :
        keys \in SUBSET {"T", "P", "xi", "yi"}, len \in [{"T", "P", "xi", "yi"} -> 0..MaxPts] }

\* The weights a dataset may give: none, or a weight for one of the headers:
\* a float, or for P and yi also a list of 1..MaxPts floats.
WeightChoices ==
    { EmptyDict } \cup
    { Put(EmptyDict, key, FloatWeight(Two)) : key \in {"T", "P", "xi", "yi"} } \cup
    { Put(EmptyDict, key, ListWeight(Repeat(Two, n))) : key \in {"P", "yi"}, n \in 1..MaxPts }

CalculationTypes == { None, "phase_xiT", "phase_yiT", "phase_unknown" }

\* The density_dict a dataset may give, if any.
DensityChoices ==
    { [x \in {"minrhofrac", "rhoinc", "vspacemax"} |->
         CASE x = "minrhofrac" -> Dec(1, 1000) [] x = "rhoinc" -> FromInt(5)
           [] OTHER -> Dec(1, 100)] }

DataDicts ==
    { LET d1 == Put(Put(arrays, "name", "TLVE"), "weights", w)
          d2 == IF ct = None THEN d1 ELSE Put(d1, "calculation_type", ct)
      IN IF dens = EmptyDict THEN d2 ELSE Put(d2, "density_dict", dens) :
        arrays \in ArrayChoices, w \in WeightChoices, ct \in CalculationTypes,
        dens \in { EmptyDict } \cup DensityChoices }

\* What thermo() may do when called for npts points: raise, or return a
\* pressure and a composition of the unknown phase for every point. Each
\* predicted channel equals the measurement, is twice it, or is NaN.
Predicted(meas, how) ==
    CASE how = "exact" -> meas [] how = "off" -> FMul(meas, Two) [] OTHER -> NaN

ThermoOutcomes(td, npts) ==
    LET row == IF td["calculation_type"] = "phase_yiT" THEN XiRow ELSE YiRow
    IN { [raised |-> TRUE, P |-> << >>, zi |-> << >>] } \cup
       { [raised |-> FALSE,
          P  |-> Repeat(Predicted(PVal, hp), npts),
          zi |-> Repeat([c \in 1..Len(row) |-> Predicted(row[c], hz[c])], npts)] :
           hp \in {"exact", "off", "nan"},
           hz \in [1..Len(row) -> {"exact", "off", "nan"}] }

\* Bounds and values of the kernel inputs.
MaxBeads == 2

MaxRho == 2

\* The state points (rho[i], zetax[i]) a call may be given.
ZetaVals == { Dec(1, 10), Dec(3, 10) }

Points == { << Zero, Dec(1, 10) >>, << FromInt(3), Dec(3, 10) >> }

LamVals == { FromInt(6), FromInt(12) }

EpsVals == { Zero, FromInt(250) }

DVals == { Dec(3, 2) }

CmolVals == { One, Dec(27, 10) }

(***************************************************************************)
(* gamma_mie_funcs_opt.py: calc_a1s_2d and calc_a1s_1d                     *)
(***************************************************************************)
\* np.pi
pi == Round(3217, -10)

\* constants.ckl_coef: the 4x4 coefficient matrix of the effective packing
\* fraction (eq. 25 of the SAFT-gamma-Mie papers).
ckl_coef ==
    << << Dec(81096, 100000), Dec(17888, 10000), Dec(-37578, 1000), Dec(92284, 1000) >>,
       << Dec(10205, 10000), Dec(-19341, 1000), Dec(15126, 100), Dec(-46350, 100) >>,
       << Dec(-19057, 10000), Dec(22845, 1000), Dec(-22814, 100), Dec(97392, 100) >>,
       << Dec(10885, 10000), Dec(-61962, 10000), Dec(10698, 100), Dec(-67764, 100) >> >>

\* np.dot of two vectors of length 4, accumulated from the left.
DotV(a, b) ==
    FAdd(FAdd(FAdd(FMul(a[1], b[1]), FMul(a[2], b[2])), FMul(a[3], b[3])),
         FMul(a[4], b[4]))

Dot4(a, b) == CHOOSE r \in { DotV(u, v) : u \in {a}, v \in {b} } : TRUE

\* One row of zetax_pow: zetax, zetax^2, zetax^3, zetax^4, each the previous
\* column times column 0.
zetax_pow(z) ==
    LET z2 == FMul(z, z)
        z3 == FMul(z2, z)
        z4 == FMul(z3, z)
    IN << z, z2, z3, z4 >>

\* np.dot(ckl_coef, v) for a vector v of length 4.
MatVec4(v) ==
    << Dot4(ckl_coef[1], v), Dot4(ckl_coef[2], v), Dot4(ckl_coef[3], v),
       Dot4(ckl_coef[4], v) >>

\* One entry of etakl: np.dot(zetax_pow, np.dot(ckl_coef, (1, 1/l, 1/l**2, 1/l**3))).
etakl(z, l) ==
    Dot4(zetax_pow(z),
         MatVec4(<< One, FDiv(One, l), FDiv(One, FSq(l)), FDiv(One, FCube(l)) >>))

\* etakl is a pure function of (zetax[i], l_kl[k, l]): its values over the
\* inputs of the model, computed once.
etakl_memo ==
    { << z, l, etakl(z, l) >> : z \in ZetaVals, l \in LamVals \cup { FromInt(3) } }

etakl_of(z, l) == (CHOOSE t \in etakl_memo : t[1] = z /\ t[2] = l)[3]

\* The factor with the exponent 3 taken out: zero in place of the division.
PoleFactor_guarded(eps, d, l) ==
    IF l = FromInt(3) THEN Zero
    ELSE FDiv(FMul(eps, FCube(d)), FSub(l, FromInt(3)))

\* (epsilonkl * (dkl**3)) / (l_kl - 3.0)
PoleFactor(eps, d, l) == FDiv(FMul(eps, FCube(d)), FSub(l, FromInt(3)))

\* (1.0 - (etakl / 2.0)) / ((1.0 - etakl)**3)
EtaFactor(eta) == FDiv(FSub(One, FDiv(eta, Two)), FCube(FSub(One, eta)))

\* calc_a1s_2d: the products are taken from the left,
\* ((((F * -2.0) * pi) * Cmol2seg) * Q), and the result is scaled by rho.
calc_a1s_2d(rho, Cmol2seg, l_kl, zetax, epsilonkl, dkl) ==
    LET nbeads == Len(dkl)
    IN [i \in 1..Len(rho) |-> [k \in 1..nbeads |-> [l \in 1..nbeads |->
         LET F   == EtaFactor(etakl_of(zetax[i], l_kl[k][l]))
             Q   == PoleFactor(epsilonkl[k][l], dkl[k][l], l_kl[k][l])
             a1s == FMul(FMul(FMul(FMul(F, FNeg(Two)), pi), Cmol2seg), Q)
         IN FMul(a1s, rho[i]) ]]]

\* The 1d product of line 100 without the scaling by rho of line 102.
calc_a1s_1d_unscaled(rho, Cmol2seg, l_kl, zetax, epsilonkl, dkl) ==
    LET nbeads == Len(dkl)
    IN [i \in 1..Len(rho) |-> [k \in 1..nbeads |->
         LET F   == EtaFactor(etakl_of(zetax[i], l_kl[k]))
             Q   == PoleFactor(epsilonkl[k], dkl[k], l_kl[k])
         IN FMul(F, FMul(FMul(FMul(FNeg(Two), pi), Cmol2seg), Q)) ]]

\* calc_a1s_1d: the scale (((-2.0 * pi) * Cmol2seg) * Q) is formed first and
\* then multiplied by the packing-fraction factor.
calc_a1s_1d(rho, Cmol2seg, l_kl, zetax, epsilonkl, dkl) ==
    LET nbeads == Len(dkl)
    IN [i \in 1..Len(rho) |-> [k \in 1..nbeads |->
         LET F   == EtaFactor(etakl_of(zetax[i], l_kl[k]))
             Q   == PoleFactor(epsilonkl[k], dkl[k], l_kl[k])
             a1s == FMul(F, FMul(FMul(FMul(FNeg(Two), pi), Cmol2seg), Q))
         IN FMul(a1s, rho[i]) ]]

VARIABLES a1s_args, a1s_2d, a1s_1d, a1s_called, a1s_raised

a1s_vars == << a1s_args, a1s_2d, a1s_1d, a1s_called, a1s_raised >>

\* The sequences of length 1..n over S.
SeqUpTo(S, n) == UNION { [1..j -> S] : j \in 1..n }

\* An nb x nb matrix with every entry v, and p at the positions of the set at.
MatrixOf(nb, v, at, p) ==
    [k \in 1..nb |-> [l \in 1..nb |-> IF << k, l >> \in at THEN p ELSE v]]

Diag(mat) == [k \in 1..Len(mat) |-> mat[k][k]]

\* Exponent matrices: one value everywhere, with at most one entry (and its
\* mirror image) equal to 3.
LamMatrices(nb) ==
    { MatrixOf(nb, v, at, FromInt(3)) :
        v \in LamVals,
        at \in {{}} \cup { { << k, l >>, << l, k >> } : k \in 1..nb, l \in 1..nb } }

\* The argument tuples of a system of nb groups.
A1sArgs(nb, pp) ==
    { [rho |-> r, Cmol2seg |-> c, l_kl |-> lam, zetax |-> z,
       epsilonkl |-> MatrixOf(nb, ev, {}, ev), dkl |-> MatrixOf(nb, dv, {}, dv)] :
        r \in { [i \in 1..Len(pts) |-> pts[i][1]] : pts \in { pp } },
        z \in { [i \in 1..Len(pts) |-> pts[i][2]] : pts \in { pp } },
        c \in CmolVals, lam \in LamMatrices(nb), ev \in EpsVals, dv \in DVals }

A1sIdle ==
    /\ a1s_args = << >>
    /\ a1s_2d = << >>
    /\ a1s_1d = << >>
    /\ a1s_called = {}
    /\ a1s_raised = {}

DataIdle ==
    /\ data_dict = EmptyDict
    /\ pc = "idle"
    /\ thermodict = EmptyDict
    /\ weights = EmptyDict
    /\ npoints = 0
    /\ exc = None
    /\ thermo_calls = 0
    /\ thermo_raised = FALSE
    /\ phase_list = << >>
    /\ obj_value = << >>
    /\ obj_total = None

(***************************************************************************)
(* The life of one dataset: construction, then one objective evaluation    *)
(***************************************************************************)
Init ==
    /\ data_dict \in DataDicts
    /\ pc = "new"
    /\ thermodict = EmptyDict
    /\ weights = EmptyDict
    /\ npoints = 0
    /\ exc = None
    /\ thermo_calls = 0
    /\ thermo_raised = FALSE
    /\ phase_list = << >>
    /\ obj_value = << >>
    /\ obj_total = None
    /\ A1sIdle

\* Data(data_dict)
Data_init ==
    /\ pc = "new"
    /\ LET r == Data_init_result(data_dict)
       IN /\ pc' = IF r.exc = None THEN "constructed" ELSE "init_failed"
          /\ exc' = r.exc
          /\ thermodict' = r.thermodict
          /\ weights' = r.weights
          /\ npoints' = r.npoints
    /\ UNCHANGED << data_dict, thermo_calls, thermo_raised, phase_list, obj_value,
                    obj_total >>
    /\ UNCHANGED a1s_vars

\* data.objective()
objective ==
    /\ pc = "constructed"
    /\ \E out \in ThermoOutcomes(thermodict, npoints) :
          LET r == objective_result(thermodict, weights, out)
          IN /\ pc' = IF r.exc = None THEN "scored" ELSE "objective_failed"
             /\ exc' = r.exc
             /\ thermo_calls' = thermo_calls + r.called
             /\ thermo_raised' = (r.called = 1 /\ out.raised)
             /\ phase_list' = r.phase_list
             /\ obj_value' = r.obj_value
             /\ obj_total' = r.obj_total
    /\ UNCHANGED << data_dict, thermodict, weights, npoints >>
    /\ UNCHANGED a1s_vars

Next == Data_init \/ objective

vars == << data_vars, a1s_vars >>

Spec == Init /\ [][Next]_vars

(***************************************************************************)
(* Calls of the kernels                                                    *)
(***************************************************************************)
A1sInit ==
    /\ a1s_args \in UNION { A1sArgs(nb, pp) : nb \in 1..MaxBeads, pp \in SeqUpTo(Points, MaxRho) }
    /\ a1s_2d = << >>
    /\ a1s_1d = << >>
    /\ a1s_called = {}
    /\ a1s_raised = {}
    /\ DataIdle

\* A call of the matrix form with the stored arguments. The kernel has no
\* raise statement and array division by zero raises nothing.
Call_calc_a1s_2d ==
    /\ "2d" \notin a1s_called
    /\ a1s_2d' = calc_a1s_2d(a1s_args.rho, a1s_args.Cmol2seg, a1s_args.l_kl,
                             a1s_args.zetax, a1s_args.epsilonkl, a1s_args.dkl)
    /\ a1s_called' = a1s_called \cup {"2d"}
    /\ UNCHANGED << a1s_args, a1s_1d, a1s_raised >>
    /\ UNCHANGED data_vars

\* A call of the vector form with the diagonals of the stored matrices.
Call_calc_a1s_1d ==
    /\ "1d" \notin a1s_called
    /\ a1s_1d' = calc_a1s_1d(a1s_args.rho, a1s_args.Cmol2seg, Diag(a1s_args.l_kl),
                             a1s_args.zetax, Diag(a1s_args.epsilonkl),
                             Diag(a1s_args.dkl))
    /\ a1s_called' = a1s_called \cup {"1d"}
    /\ UNCHANGED << a1s_args, a1s_2d, a1s_raised >>
    /\ UNCHANGED data_vars

A1sNext == Call_calc_a1s_2d \/ Call_calc_a1s_1d

SpecA1s == A1sInit /\ [][A1sNext]_vars

(***************************************************************************)
(* Properties of the kernels                                               *)
(***************************************************************************)
Three == FromInt(3)

nbeads_in == Len(a1s_args.dkl)

npts_in == Len(a1s_args.rho)

\* The positions (k, l) of the exponent matrix that hold 3 exactly.
Poles == { kl \in (1..nbeads_in) \X (1..nbeads_in) : a1s_args.l_kl[kl[1]][kl[2]] = Three }

Returned(call) == call \in a1s_called /\ call \notin a1s_raised

\* C7 as stated: with an entry of l_kl equal to 3, a call of calc_a1s_2d or
\* calc_a1s_1d ends with an error and returns no array.
C7_PoleRaisesDomainError ==
    /\ (Poles # {} /\ "2d" \in a1s_called) => "2d" \in a1s_raised
    /\ ((\E k \in 1..nbeads_in : << k, k >> \in Poles) /\ "1d" \in a1s_called)
          => "1d" \in a1s_raised

\* C7, amended: the kernels do not test the exponent; with an entry of l_kl
\* equal to 3, every entry of a returned array at the position of such an
\* exponent is infinite or NaN, for every density index.
C7_PoleReturnsNonFinite ==
    /\ Returned("2d") =>
          \A kl \in Poles : \A i \in 1..npts_in :
              ~IsFinite(a1s_2d[i][kl[1]][kl[2]])
    /\ Returned("1d") =>
          \A k \in 1..nbeads_in : << k, k >> \in Poles =>
              \A i \in 1..npts_in : ~IsFinite(a1s_1d[i][k])

\* A state in which both kernels returned for an exponent 3 on the
\* diagonal, one output being infinite and another NaN.
C7_Witness ==
    /\ Returned("2d") /\ Returned("1d")
    /\ << 1, 1 >> \in Poles
    /\ \E i \in 1..npts_in : IsInf(a1s_2d[i][1][1]) /\ IsInf(a1s_1d[i][1])
    /\ \E i \in 1..npts_in : IsNaN(a1s_2d[i][1][1]) /\ IsNaN(a1s_1d[i][1])

\* Two results that agree up to rounding: both NaN, the same infinity, both
\* zero, or finite of the same sign with |x - y| <= 2^(4 - Prec) * min(|x|, |y|).
Close(x, y) ==
    IF ~IsFinite(x) \/ ~IsFinite(y) \/ IsZero(x) \/ IsZero(y) THEN x = y
    ELSE /\ Sgn(x.m) = Sgn(y.m)
         /\ Abs(x.e - y.e) <= 1
         /\ LET e0 == IF x.e < y.e THEN x.e ELSE y.e
                X  == Abs(x.m) * Pow2(x.e - e0)
                Y  == Abs(y.m) * Pow2(y.e - e0)
            IN Abs(X - Y) * Pow2(Prec - 4) <= (IF X < Y THEN X ELSE Y)

BothCalledOneGroup == a1s_called = {"2d", "1d"} /\ nbeads_in = 1

\* C8 as stated: for one group, entry [i][0][0] of calc_a1s_2d is the same
\* number as entry [i][0] of calc_a1s_1d, for every density index i.
C8_OneGroupFormsIdentical ==
    BothCalledOneGroup =>
        \A i \in 1..npts_in : a1s_2d[i][1][1] = a1s_1d[i][1]

\* C8, amended: for one group the two entries agree up to the rounding of
\* the intermediate products, which the two kernels take in different orders.
C8_OneGroupFormsAgreeUpToRounding ==
    BothCalledOneGroup =>
        \A i \in 1..npts_in : Close(a1s_2d[i][1][1], a1s_1d[i][1])

\* A state in which both kernels were called for one group and returned
\* finite non-zero entries.
C8_Witness ==
    /\ BothCalledOneGroup
    /\ \E i \in 1..npts_in :
          /\ IsFinite(a1s_2d[i][1][1]) /\ ~IsZero(a1s_2d[i][1][1])
          /\ IsFinite(a1s_1d[i][1]) /\ ~IsZero(a1s_1d[i][1])

(***************************************************************************)
(* Properties of the dataset                                               *)
(***************************************************************************)
Given(key) == Has(data_dict, key)

Built == pc \in {"constructed", "scored", "objective_failed"}

GivenArrays == { key \in {"T", "P", "xi", "yi"} : Given(key) }

GivenWeights == data_dict["weights"]

\* No given weight is a list of another length than its data.
WeightsValid ==
    \A key \in DOMAIN GivenWeights \cap GivenArrays :
        GivenWeights[key].type = "float" \/ Len(GivenWeights[key].v) = Len(data_dict[key])

\* C1 as stated: in mode phase_xiT or phase_yiT, when thermo() raises,
\* objective() returns +infinity instead of raising.
C1_ThermoFailureGivesInfinity ==
    thermo_raised => (pc = "scored" /\ obj_total = Inf(1))

\* C1, amended: in mode phase_xiT or phase_yiT, when thermo() raises,
\* objective() returns no value: it raises ValueError to its caller.
C1_ThermoFailureRaisesValueError ==
    thermo_raised =>
        /\ pc = "objective_failed" /\ exc = "ValueError" /\ obj_total = None
        /\ thermodict["calculation_type"] \in {"phase_xiT", "phase_yiT"}

C1_Witness ==
    /\ thermo_raised /\ pc = "objective_failed"
    /\ thermodict["calculation_type"] = "phase_yiT"
    /\ npoints > 0

\* The measured columns of the unknown phase.
MeasuredUnknown ==
    IF thermodict["calculation_type"] = "phase_xiT"
    THEN Transpose(thermodict["yilist"]) ELSE Transpose(thermodict["xilist"])

\* objective() returned, and the prediction it scored equals the measured
\* pressure and the measured composition of the unknown phase at every point.
PredictionExact ==
    /\ pc = "scored" /\ npoints > 0 /\ Has(thermodict, "Plist")
    /\ phase_list[1] = thermodict["Plist"]
    /\ \A c \in 1..Len(MeasuredUnknown) : phase_list[1 + c] = MeasuredUnknown[c]

\* C2 as stated: when the prediction equals the measurement at every point
\* (every channel score is 0), objective() returns 0.
C2_ExactPredictionScoresZero ==
    PredictionExact => (obj_value = << Zero, Zero >> /\ obj_total = Zero)

\* C2, amended: when the prediction equals the measurement at every point,
\* every channel score is 0 and objective() returns +infinity.
C2_ExactPredictionScoresInfinity ==
    PredictionExact => (obj_value = << Zero, Zero >> /\ obj_total = Inf(1))

C2_Witness ==
    /\ PredictionExact /\ npoints = MaxPts
    /\ thermodict["calculation_type"] = "phase_xiT"
    /\ weights["Plist"].type = "list"

\* C3: objective() returns +infinity when each of the two channel scores is
\* NaN or 0, and otherwise the sum of the scores that are not NaN.
C3_ChannelReduction ==
    pc = "scored" =>
        /\ Len(obj_value) = 2
        /\ LET p == obj_value[1]
               z == obj_value[2]
               null(x) == IsNaN(x) \/ IsZero(x)
           IN CASE null(p) /\ null(z) -> obj_total = Inf(1)
                [] ~(null(p) /\ null(z)) /\ IsNaN(p) -> obj_total = z
                [] ~(null(p) /\ null(z)) /\ ~IsNaN(p) /\ IsNaN(z) -> obj_total = p
                [] OTHER -> obj_total = FAdd(p, z)

\* objective() returned with a NaN pressure score and a positive composition
\* score, which alone is the result.
C3_Witness ==
    /\ pc = "scored"
    /\ IsNaN(obj_value[1])
    /\ IsFinite(obj_value[2]) /\ obj_value[2].m > 0
    /\ obj_total = obj_value[2]

\* Some given array among P, xi, yi is not as long as the given T.
LengthMismatch ==
    /\ Given("T")
    /\ \E key \in GivenArrays : Len(data_dict[key]) # Len(data_dict["T"])

\* C4: a dataset in which P, xi or yi is not as long as T fails at
\* construction (with ValueError when xi and yi are both given), and thermo()
\* has not been called.
C4_LengthMismatchRejected ==
    (LengthMismatch /\ pc # "new") =>
        /\ pc = "init_failed"
        /\ exc \in {"ValueError", "ImportError"}
        /\ (Given("xi") /\ Given("yi")) => exc = "ValueError"
        /\ thermo_calls = 0

C4_Witness ==
    /\ pc = "init_failed" /\ exc = "ValueError"
    /\ GivenArrays = {"T", "P", "xi", "yi"}
    /\ GivenWeights = EmptyDict
    /\ Len(data_dict["P"]) # Len(data_dict["T"])
    /\ Len(data_dict["xi"]) = Len(data_dict["T"])
    /\ Len(data_dict["yi"]) = Len(data_dict["T"])
    /\ thermo_calls = 0

\* The given arrays have one common length, which is not 0.
EqualLengths ==
    \E n \in 1..(MaxPts + 1) : \A key \in GivenArrays : Len(data_dict[key]) = n

\* C5 as stated: with equal-length arrays and valid weights, construction
\* fails exactly when P and T are both absent or xi or yi is absent; it
\* succeeds with P and without T.
C5_RequiredFields ==
    (pc # "new" /\ EqualLengths /\ WeightsValid) =>
        (pc = "init_failed" <=>
            \/ (~Given("P") /\ ~Given("T"))
            \/ ~Given("xi")
            \/ ~Given("yi"))

\* C6 as stated: a calculation_type other than phase_xiT and phase_yiT is
\* rejected by the constructor: such a dataset is never constructed.
C6_UnknownModeRejectedAtConstruction ==
    (Given("calculation_type")
        /\ data_dict["calculation_type"] \notin {"phase_xiT", "phase_yiT"})
      => ~Built

\* C9 as stated: after construction thermodict["density_dict"] holds every
\* option given under density_dict, with the given value.
C9_DensityOptionsKept ==
    (Built /\ Given("density_dict")) =>
        \A opt \in DOMAIN data_dict["density_dict"] :
            /\ Has(thermodict["density_dict"], opt)
            /\ thermodict["density_dict"][opt] = data_dict["density_dict"][opt]

\* The header under which the weight of a key of thermodict is given.
Header(key) ==
    CASE key = "xilist" -> "xi" [] key = "yilist" -> "yi" [] key = "Tlist" -> "T"
      [] key = "Plist" -> "P" [] OTHER -> key

DataKeys == DOMAIN thermodict \ {"calculation_type", "density_dict", "mpObj"}

\* The keys whose weight objective() reads.
ScoredKeys ==
    (IF Has(thermodict, "Plist") THEN {"Plist"} ELSE {}) \cup
    (IF thermodict["calculation_type"] = "phase_xiT" THEN {"yilist"}
     ELSE IF thermodict["calculation_type"] = "phase_yiT" THEN {"xilist"} ELSE {})

\* C10: a constructed dataset has a weight for every data key of thermodict:
\* the given one, or 1.0 when none was given; so every weight objective()
\* reads is there.
C10_WeightsCoverThermodict ==
    Built =>
        /\ \A key \in DataKeys :
              /\ Has(weights, key)
              /\ weights[key] = IF Has(GivenWeights, Header(key))
                                THEN GivenWeights[Header(key)] ELSE FloatWeight(One)
        /\ ScoredKeys \subseteq DOMAIN weights

C10_Witness ==
    /\ pc = "constructed"
    /\ Has(GivenWeights, "yi")
    /\ DataKeys = {"Tlist", "Plist", "Pguess", "xilist", "yilist"}
    /\ weights["Plist"] = FloatWeight(One)
    /\ weights["yilist"] = GivenWeights["yi"]

====
